---- MODULE Spec2Model ----
(***************************************************************************)
(* soltx: a model of src/src/main.rs.                                      *)
(*                                                                         *)
(* main reads a YAML file, decodes its first document into a list of       *)
(* instructions, builds a transaction paid by the configured signer,       *)
(* fetches a recent blockhash, signs, submits and prints the signature.    *)
(*                                                                         *)
(* Two specifications:                                                     *)
(*   Spec        one invocation of main, from signer set-up to exit;       *)
(*   SpecDecode  calls of the pure decoders yaml_to_instruction and        *)
(*               yaml_to_account_meta on bounded Yaml nodes.               *)
(***************************************************************************)
EXTENDS Integers, Sequences, FiniteSets, TLC

\* Bounds of the model.
MaxInstr == 2
MaxAccounts == 2
MaxDataLen == 3

(***************************************************************************)
(* Yaml nodes (yaml_rust::Yaml), as far as main.rs looks at them.          *)
(***************************************************************************)
BadValue == [tag |-> "BadValue"]
YString(s) == [tag |-> "String", s |-> s]
YBoolean(b) == [tag |-> "Boolean", b |-> b]
YArray(items) == [tag |-> "Array", items |-> items]
YInteger(n) == [tag |-> "Integer", n |-> n]
YHash(map) == [tag |-> "Hash", map |-> map]

\* yaml["key"]: the entry of a Hash, BadValue for a missing key or a non-Hash.
Index(yaml, key) ==
    IF yaml.tag = "Hash" /\ key \in DOMAIN yaml.map THEN yaml.map[key] ELSE BadValue

\* Option-returning accessors; None is modelled by the tag test.
IsStr(yaml) == yaml.tag = "String"
IsBool(yaml) == yaml.tag = "Boolean"
IsVec(yaml) == yaml.tag = "Array"

(***************************************************************************)
(* Text.  A string is a sequence of one-character strings.                 *)
(***************************************************************************)
Digits == {"0", "1", "2", "3", "4", "5", "6", "7", "8", "9"}

DigitValue(c) ==
    CASE c = "0" -> 0 [] c = "1" -> 1 [] c = "2" -> 2 [] c = "3" -> 3
      [] c = "4" -> 4 [] c = "5" -> 5 [] c = "6" -> 6 [] c = "7" -> 7
      [] c = "8" -> 8 [] c = "9" -> 9

\* str::split(','): the pieces between commas; one (empty) piece for "".
RECURSIVE SplitFrom(_, _)
SplitFrom(s, piece) ==
    IF s = <<>> THEN <<piece>>
    ELSE IF Head(s) = "," THEN <<piece>> \o SplitFrom(Tail(s), <<>>)
    ELSE SplitFrom(Tail(s), Append(piece, Head(s)))

Split(s) == SplitFrom(s, <<>>)

\* The value of a run of digits, or -1 once it exceeds u8::MAX (PosOverflow).
RECURSIVE DigitsValue(_, _)
DigitsValue(s, acc) ==
    IF s = <<>> THEN acc
    ELSE LET next == acc * 10 + DigitValue(Head(s))
         IN IF next > 255 THEN -1 ELSE DigitsValue(Tail(s), next)

\* str::parse::<u8>(): an optional leading "+", then one or more digits, value
\* at most 255.  The result is the byte, or -1 for Err(ParseIntError).
ParseU8(s) ==
    LET digits == IF s # <<>> /\ Head(s) = "+" THEN Tail(s) ELSE s
    IN IF digits = <<>> THEN -1
       ELSE IF \E i \in 1..Len(digits) : digits[i] \notin Digits THEN -1
       ELSE DigitsValue(digits, 0)

\* str::parse::<Pubkey>(): the key a base58 text stands for, "" for Err.
ParsePubkey(text) ==
    CASE text = "Payer58" -> "Payer"
      [] text = "Other58" -> "Other"
      [] text = "Program58" -> "Program"
      [] OTHER -> ""

(***************************************************************************)
(* The decoders.  Every unwrap() of a None or an Err panics; a decoder     *)
(* either returns its value or unwinds.                                    *)
(***************************************************************************)
Panicked == [panic |-> TRUE]
Returned(v) == [panic |-> FALSE, value |-> v]

RECURSIVE AnyPanicked(_)
AnyPanicked(results) ==
    IF results = <<>> THEN FALSE
    ELSE Head(results).panic \/ AnyPanicked(Tail(results))

Values(results) == [i \in 1..Len(results) |-> results[i].value]

yaml_to_account_meta(yaml) ==
    LET key == Index(yaml, "key")
        isSigner == Index(yaml, "isSigner")
        isWritable == Index(yaml, "isWritable")
    IN IF ~IsStr(key) THEN Panicked
       ELSE IF ParsePubkey(key.s) = "" THEN Panicked
       ELSE IF ~IsBool(isSigner) THEN Panicked
       ELSE IF ~IsBool(isWritable) THEN Panicked
       ELSE Returned([pubkey |-> ParsePubkey(key.s),
                      is_signer |-> isSigner.b,
                      is_writable |-> isWritable.b])

\* Mutant: the bytes are collected back to front.
DecodeDataReversed(text) ==
    LET pieces == Split(text)
        bytes == [i \in 1..Len(pieces) |-> ParseU8(pieces[Len(pieces) + 1 - i])]
    IN IF \E i \in 1..Len(bytes) : bytes[i] = -1 THEN Panicked ELSE Returned(bytes)

\* The data field: split at commas, every piece parsed as a u8.
DecodeData(text) ==
    LET pieces == Split(text)
        bytes == [i \in 1..Len(pieces) |-> ParseU8(pieces[i])]
    IN IF \E i \in 1..Len(bytes) : bytes[i] = -1 THEN Panicked ELSE Returned(bytes)

yaml_to_instruction(yaml) ==
    LET dataNode == Index(yaml, "data")
        accountsNode == Index(yaml, "accounts")
        programNode == Index(yaml, "programId")
    IN IF ~IsStr(dataNode) THEN Panicked
       ELSE IF DecodeData(dataNode.s).panic THEN Panicked
       ELSE IF ~IsVec(accountsNode) THEN Panicked
       ELSE LET metas == [i \in 1..Len(accountsNode.items) |->
                             yaml_to_account_meta(accountsNode.items[i])]
            IN IF AnyPanicked(metas) THEN Panicked
               ELSE IF ~IsStr(programNode) THEN Panicked
               ELSE IF ParsePubkey(programNode.s) = "" THEN Panicked
               ELSE Returned([program_id |-> ParsePubkey(programNode.s),
                              data |-> DecodeData(dataNode.s).value,
                              accounts |-> Values(metas)])

(***************************************************************************)
(* The transaction (solana_sdk::transaction::Transaction), as far as       *)
(* send_transaction uses it.  Signature slots are keyed by the key that    *)
(* has to sign: the payer and every account an instruction marks signer.   *)
(***************************************************************************)
SignerPubkey == "Payer"
DefaultHash == "11111111"
DefaultSignature == [by |-> "", blockhash |-> DefaultHash]
Blockhashes == {"HashA", "HashB"}

\* Mutant: the signer flags of the accounts are not compiled into the message.
RequiredSignersPayerOnly(instructions, payer) == {payer}

\* The keys the compiled message requires a signature of.
RequiredSigners(instructions, payer) ==
    {payer} \cup UNION {{instructions[i].accounts[j].pubkey :
                            j \in {j \in 1..Len(instructions[i].accounts) :
                                     instructions[i].accounts[j].is_signer}} :
                        i \in 1..Len(instructions)}

\* Transaction::new_with_payer(instructions, Some(&payer)).
new_with_payer(instructions, payer) ==
    [fee_payer |-> payer,
     instructions |-> instructions,
     recent_blockhash |-> DefaultHash,
     signatures |-> [k \in RequiredSigners(instructions, payer) |-> DefaultSignature]]

\* Signer::try_sign_message of the fee payer's signer.
SignMessage(key, blockhash) == [by |-> key, blockhash |-> blockhash]

\* Transaction::try_partial_sign(&[signer], blockhash): stamps the blockhash,
\* clears the slots when it changed, fills the signer's own slot.
try_partial_sign(tx, key, blockhash) ==
    [tx EXCEPT !.recent_blockhash = blockhash,
               !.signatures = [k \in DOMAIN tx.signatures |->
                                  IF k = key THEN SignMessage(key, blockhash)
                                  ELSE IF blockhash # tx.recent_blockhash THEN DefaultSignature
                                  ELSE tx.signatures[k]]]

\* Transaction::is_signed: no slot holds the default signature.
is_signed(tx) == \A k \in DOMAIN tx.signatures : tx.signatures[k] # DefaultSignature

(***************************************************************************)
(* Input files.  A well-formed file is the rendering of an instruction     *)
(* list in the file format; the other files are broken in one place.       *)
(***************************************************************************)
DigitChar(d) ==
    CASE d = 0 -> "0" [] d = 1 -> "1" [] d = 2 -> "2" [] d = 3 -> "3"
      [] d = 4 -> "4" [] d = 5 -> "5" [] d = 6 -> "6" [] d = 7 -> "7"
      [] d = 8 -> "8" [] d = 9 -> "9"

RECURSIVE ToDecimal(_)
ToDecimal(n) ==
    IF n < 10 THEN <<DigitChar(n)>>
    ELSE Append(ToDecimal(n \div 10), DigitChar(n % 10))

RECURSIVE JoinBytes(_)
JoinBytes(bytes) ==
    IF bytes = <<>> THEN <<>>
    ELSE IF Len(bytes) = 1 THEN ToDecimal(bytes[1])
    ELSE ToDecimal(Head(bytes)) \o <<",">> \o JoinBytes(Tail(bytes))

KeyText(pubkey) ==
    CASE pubkey = "Payer" -> "Payer58"
      [] pubkey = "Other" -> "Other58"
      [] pubkey = "Program" -> "Program58"

FormatAccountMeta(meta) ==
    YHash([key |-> YString(KeyText(meta.pubkey)),
           isSigner |-> YBoolean(meta.is_signer),
           isWritable |-> YBoolean(meta.is_writable)])

FormatInstruction(ins) ==
    YHash([programId |-> YString(KeyText(ins.program_id)),
           accounts |-> YArray([j \in 1..Len(ins.accounts) |->
                                   FormatAccountMeta(ins.accounts[j])]),
           data |-> YString(JoinBytes(ins.data))])

FormatDocument(instructions) ==
    YArray([i \in 1..Len(instructions) |-> FormatInstruction(instructions[i])])

\* A mapping holding the entries of `all` that are not Absent.
Absent == [tag |-> "Absent"]
Mapping(all) == YHash([k \in {k \in DOMAIN all : all[k].tag # "Absent"} |-> all[k]])

SeqsUpTo(S, n) == UNION {[1..k -> S] : k \in 0..n}

\* Instructions an author may mean.
Meta(pubkey, is_signer, is_writable) ==
    [pubkey |-> pubkey, is_signer |-> is_signer, is_writable |-> is_writable]

AccountSamples ==
    {<<>>,
     <<Meta("Other", FALSE, TRUE), Meta("Payer", FALSE, FALSE)>>,
     <<Meta("Payer", FALSE, FALSE), Meta("Other", FALSE, TRUE)>>,
     <<Meta("Payer", TRUE, TRUE)>>,
     <<Meta("Other", TRUE, FALSE)>>}

ByteSamples == {<<>>, <<7>>, <<2, 0, 100>>, <<100, 0, 2>>, <<255, 10>>}

InstructionSamples ==
    [program_id : {"Program"}, accounts : AccountSamples, data : ByteSamples]

\* Instruction elements broken in one place.
GoodMeta == FormatAccountMeta(Meta("Other", FALSE, TRUE))
GoodElement == FormatInstruction([program_id |-> "Program",
                                  accounts |-> <<Meta("Other", FALSE, TRUE)>>,
                                  data |-> <<7>>])

BrokenMetas ==
    {Mapping([key |-> Absent, isSigner |-> YBoolean(TRUE), isWritable |-> YBoolean(TRUE)]),
     Mapping([key |-> YString("Other58"), isSigner |-> Absent, isWritable |-> YBoolean(TRUE)]),
     Mapping([key |-> YString("Other58"), isSigner |-> YBoolean(TRUE), isWritable |-> Absent]),
     Mapping([key |-> YString("not base58"), isSigner |-> YBoolean(TRUE),
              isWritable |-> YBoolean(TRUE)]),
     Mapping([key |-> YString("Other58"), isSigner |-> YString(<<"1">>),
              isWritable |-> YBoolean(TRUE)])}

BrokenData ==
    {Absent, YInteger(5), YString(<<"1", ",", "2", ",", "3", "0", "0">>),
     YString(<<"-", "1">>), YString(<<" ", "1">>), YString(<<"1", ",", "x">>),
     YString(<<"2", "5", "6">>), YString(<<"+", "5">>)}

BrokenElements ==
    {Mapping([programId |-> Absent, accounts |-> YArray(<<>>), data |-> YString(<<"7">>)]),
     Mapping([programId |-> YString("not base58"), accounts |-> YArray(<<>>),
              data |-> YString(<<"7">>)]),
     Mapping([programId |-> YString("Program58"), accounts |-> Absent,
              data |-> YString(<<"7">>)]),
     YString(<<"x">>)}
    \cup {Mapping([programId |-> YString("Program58"), accounts |-> YArray(<<>>), data |-> d]) :
             d \in BrokenData}
    \cup {Mapping([programId |-> YString("Program58"), accounts |-> YArray(<<GoodMeta, m>>),
                   data |-> YString(<<"7">>)]) : m \in BrokenMetas}

\* What lies at the path given to main: nothing, text that is not YAML, or
\* the documents YamlLoader finds in it.
MissingFile == [kind |-> "missing", docs |-> <<>>]
NotYaml == [kind |-> "not yaml", docs |-> <<>>]
YamlFile(docs) == [kind |-> "yaml", docs |-> docs]

WellFormedInputs ==
    {[file |-> YamlFile(<<FormatDocument(l)>>), well_formed |-> TRUE, instructions |-> l] :
       l \in SeqsUpTo(InstructionSamples, MaxInstr)}

BrokenInputs ==
    {[file |-> f, well_formed |-> FALSE, instructions |-> <<>>] :
       f \in {MissingFile, NotYaml, YamlFile(<<>>), YamlFile(<<YString(<<"x">>)>>),
              YamlFile(<<FormatInstruction([program_id |-> "Program", accounts |-> <<>>,
                                            data |-> <<7>>])>>)}
              \cup {YamlFile(<<YArray(<<e>>)>>) : e \in BrokenElements}
              \cup {YamlFile(<<YArray(<<GoodElement, e>>)>>) : e \in BrokenElements}}

(***************************************************************************)
(* State.                                                                  *)
(***************************************************************************)
VARIABLES
    pc,               \* where main stands
    input,            \* the file at FILE, and the instruction list its author meant
    content_as_yaml,  \* the documents YamlLoader returned
    transaction,      \* send_transaction's transaction
    recent_blockhash, \* the blockhash get_recent_blockhash returned
    signature,        \* the signature send_transaction returned
    log,              \* the stages run so far, each with its outcome
    stdout,           \* the lines printed so far
    stderr,           \* the error reports so far
    exit_code,        \* the process's exit code, -1 while it runs
    call              \* SpecDecode: one call of a decoder

vars == <<pc, input, content_as_yaml, transaction, recent_blockhash, signature, log, stdout, stderr,
          exit_code, call>>

NoTransaction == new_with_payer(<<>>, "")
NoCall == [fn |-> "none", done |-> TRUE]

Stage(name, ok) == [stage |-> name, ok |-> ok]
Ran(name) == \E i \in 1..Len(log) : log[i].stage = name
Failed(name) == \E i \in 1..Len(log) : log[i].stage = name /\ ~log[i].ok
Succeeded(name) == \E i \in 1..Len(log) : log[i].stage = name /\ log[i].ok
Count(name) == Cardinality({i \in 1..Len(log) : log[i].stage = name})

Init ==
    /\ pc = "start"
    /\ input \in WellFormedInputs \cup BrokenInputs
    /\ content_as_yaml = <<>>
    /\ transaction = NoTransaction
    /\ recent_blockhash = DefaultHash
    /\ signature = DefaultSignature
    /\ log = <<>>
    /\ stdout = <<>>
    /\ stderr = <<>>
    /\ exit_code = -1
    /\ call = NoCall

\* `?` in main: the error goes back to the runtime, which reports it and
\* ends the process with exit code 1.  exit(1) after eprintln does the same.
ExitWithError(stage, error) ==
    /\ log' = Append(log, Stage(stage, FALSE))
    /\ stderr' = Append(stderr, error)
    /\ exit_code' = 1
    /\ pc' = "exited"

\* unwrap() of a None or an Err: the thread panics, the runtime reports the
\* panic and ends the process with exit code 101.
ExitWithPanic(stage) ==
    /\ log' = Append(log, Stage(stage, FALSE))
    /\ stderr' = Append(stderr, "panicked")
    /\ exit_code' = 101
    /\ pc' = "exited"

Continue(stage, next) ==
    /\ log' = Append(log, Stage(stage, TRUE))
    /\ pc' = next
    /\ UNCHANGED <<stderr, exit_code>>

\* main, lines 55-85: the signer from the keypair path, the RPC client.
LoadSigner ==
    /\ pc = "start"
    /\ \/ Continue("signer", "configured")
       \/ ExitWithError("signer", "SignerError")
    /\ UNCHANGED <<input, content_as_yaml, transaction, recent_blockhash, signature, stdout, call>>

\* main, line 89: fs::read_to_string(path)?
ReadFile ==
    /\ pc = "configured"
    /\ IF input.file.kind = "missing"
       THEN ExitWithError("read", "IoError")
       ELSE Continue("read", "read")
    /\ UNCHANGED <<input, content_as_yaml, transaction, recent_blockhash, signature, stdout, call>>

\* main, line 90: YamlLoader::load_from_str(&file_content)?
LoadYaml ==
    /\ pc = "read"
    /\ IF input.file.kind = "not yaml"
       THEN ExitWithError("parse", "ScanError") /\ UNCHANGED content_as_yaml
       ELSE Continue("parse", "loaded") /\ content_as_yaml' = input.file.docs
    /\ UNCHANGED <<input, transaction, recent_blockhash, signature, stdout, call>>

\* send_transaction, lines 108-116: the instructions of content_as_yaml.get(0).
Instructions(docs) ==
    IF Len(docs) = 0 THEN Returned(<<>>)
    ELSE IF ~IsVec(docs[1]) THEN Panicked
    ELSE LET decoded == [i \in 1..Len(docs[1].items) |->
                            yaml_to_instruction(docs[1].items[i])]
         IN IF AnyPanicked(decoded) THEN Panicked ELSE Returned(Values(decoded))

\* send_transaction, lines 108-119: decode, then build the unsigned transaction.
DecodeAndBuild ==
    /\ pc = "loaded"
    /\ LET instructions == Instructions(content_as_yaml)
       IN IF instructions.panic
          THEN ExitWithPanic("decode") /\ UNCHANGED transaction
          ELSE /\ Continue("decode", "built")
               /\ transaction' = new_with_payer(instructions.value, SignerPubkey)
    /\ UNCHANGED <<input, content_as_yaml, recent_blockhash, signature, stdout, call>>

\* send_transaction, line 120: rpc_client.get_recent_blockhash()?
GetRecentBlockhash ==
    /\ pc = "built"
    /\ \/ \E hash \in Blockhashes :
            Continue("fetch", "referenced") /\ recent_blockhash' = hash
       \/ ExitWithError("fetch", "RpcError") /\ UNCHANGED recent_blockhash
    /\ UNCHANGED <<input, content_as_yaml, transaction, signature, stdout, call>>

\* Mutant: try_partial_sign in place of try_sign, empty slots pass.
try_sign_unchecked(tx, key, blockhash, refuses) ==
    IF refuses THEN [error |-> "SignerError: refused", tx |-> tx]
    ELSE [error |-> "", tx |-> try_partial_sign(tx, key, blockhash)]

\* Transaction::try_sign(&vec![signer], recent_blockhash): the signer may
\* refuse; a transaction left with an empty slot is Err(NotEnoughSigners).
try_sign(tx, key, blockhash, refuses) ==
    LET signed == try_partial_sign(tx, key, blockhash)
    IN IF refuses THEN [error |-> "SignerError: refused", tx |-> tx]
       ELSE IF ~is_signed(signed)
            THEN [error |-> "SignerError: not enough signers", tx |-> signed]
       ELSE [error |-> "", tx |-> signed]

\* A printed line, by the signatures it shows.
Line(format, signatures) == [format |-> format, signatures |-> signatures]
Shows(line, sig) == sig \in line.signatures
SlotValues(tx) == {tx.signatures[k] : k \in DOMAIN tx.signatures}

\* Mutant: the result of try_sign is dropped instead of returned with `?`.
SignTransactionIgnoringError ==
    /\ pc = "referenced"
    /\ \E refuses \in BOOLEAN :
         LET result == try_sign(transaction, SignerPubkey, recent_blockhash, refuses)
         IN /\ log' = Append(log, Stage("sign", result.error = ""))
            /\ pc' = "signed"
            /\ transaction' = result.tx
            /\ stdout' = Append(stdout, Line("{:?}", SlotValues(result.tx)))
    /\ UNCHANGED <<input, content_as_yaml, recent_blockhash, signature, stderr,
                   exit_code, call>>

\* send_transaction, lines 122-124: sign, then print the signature slots.
SignTransaction ==
    /\ pc = "referenced"
    /\ \E refuses \in BOOLEAN :
         LET result == try_sign(transaction, SignerPubkey, recent_blockhash, refuses)
         IN IF result.error # ""
            THEN ExitWithError("sign", result.error) /\ UNCHANGED <<transaction, stdout>>
            ELSE /\ Continue("sign", "signed")
                 /\ transaction' = result.tx
                 /\ stdout' = Append(stdout, Line("{:?}", SlotValues(result.tx)))
    /\ UNCHANGED <<input, content_as_yaml, recent_blockhash, signature, call>>

\* Mutant: a failed submit is tried once more.
SubmitTransactionRetrying ==
    /\ pc = "signed"
    /\ \/ /\ Continue("submit", "confirmed")
          /\ signature' = transaction.signatures[transaction.fee_payer]
       \/ /\ Count("submit") = 0
          /\ log' = Append(log, Stage("submit", FALSE))
          /\ UNCHANGED <<pc, stderr, exit_code, signature>>
       \/ /\ Count("submit") > 0
          /\ ExitWithError("submit", "RpcError")
          /\ UNCHANGED signature
    /\ UNCHANGED <<input, content_as_yaml, transaction, recent_blockhash, stdout, call>>

\* Mutant: the signature is printed when the call is issued, before its result.
SubmitTransactionPrintingFirst ==
    /\ pc = "signed"
    /\ stdout' = Append(stdout, Line("{}", {transaction.signatures[transaction.fee_payer]}))
    /\ \/ /\ Continue("submit", "confirmed")
          /\ signature' = transaction.signatures[transaction.fee_payer]
       \/ ExitWithError("submit", "RpcError") /\ UNCHANGED signature
    /\ UNCHANGED <<input, content_as_yaml, transaction, recent_blockhash, call>>

\* send_transaction, lines 126-135: one send_and_confirm call; its signature
\* is the transaction's first, the fee payer's.
SubmitTransaction ==
    /\ pc = "signed"
    /\ \/ /\ Continue("submit", "confirmed")
          /\ signature' = transaction.signatures[transaction.fee_payer]
       \/ ExitWithError("submit", "RpcError") /\ UNCHANGED signature
    /\ UNCHANGED <<input, content_as_yaml, transaction, recent_blockhash, stdout, call>>

\* main, lines 97-99: print the signature, return Ok(()).
PrintSignature ==
    /\ pc = "confirmed"
    /\ stdout' = Append(stdout, Line("{}", {signature}))
    /\ log' = Append(log, Stage("print", TRUE))
    /\ exit_code' = 0
    /\ pc' = "exited"
    /\ UNCHANGED <<input, content_as_yaml, transaction, recent_blockhash, signature,
                   stderr, call>>

Next ==
    \/ LoadSigner
    \/ ReadFile
    \/ LoadYaml
    \/ DecodeAndBuild
    \/ GetRecentBlockhash
    \/ SignTransaction
    \/ SubmitTransaction
    \/ PrintSignature

Spec == Init /\ [][Next]_vars

(***************************************************************************)
(* SpecDecode: the decoders, called on bounded Yaml nodes.                 *)
(***************************************************************************)
DataChars == {"0", "1", "2", "5", "6", "9", "+", "-", " ", ",", "x"}

MetaSamples == [pubkey : {"Payer", "Other"}, is_signer : BOOLEAN, is_writable : BOOLEAN]
MetaNodes == BrokenMetas \cup {FormatAccountMeta(m) : m \in MetaSamples}

InstructionNodes ==
    {Mapping([programId |-> YString("Program58"), accounts |-> YArray(<<>>),
              data |-> YString(s)]) : s \in SeqsUpTo(DataChars, MaxDataLen)}
    \cup {Mapping([programId |-> p, accounts |-> a, data |-> d]) :
             p \in {Absent, YString("Program58"), YString("not base58")},
             a \in {Absent} \cup {YArray(ms) : ms \in SeqsUpTo(MetaNodes, MaxAccounts)},
             d \in {Absent, YInteger(5), YString(<<>>), YString(<<"7">>)}}
    \cup {FormatInstruction(ins) : ins \in InstructionSamples}

NotReturned == [panic |-> FALSE, value |-> "none"]
Pending(fn, arg) == [fn |-> fn, arg |-> arg, done |-> FALSE, ret |-> NotReturned]

InitDecode ==
    /\ pc = "decoder"
    /\ input = [file |-> MissingFile, well_formed |-> FALSE, instructions |-> <<>>]
    /\ content_as_yaml = <<>>
    /\ transaction = NoTransaction
    /\ recent_blockhash = DefaultHash
    /\ signature = DefaultSignature
    /\ log = <<>>
    /\ stdout = <<>>
    /\ stderr = <<>>
    /\ exit_code = -1
    /\ \/ \E arg \in InstructionNodes : call = Pending("yaml_to_instruction", arg)
       \/ \E arg \in MetaNodes : call = Pending("yaml_to_account_meta", arg)

CallYamlToInstruction ==
    /\ call.fn = "yaml_to_instruction" /\ ~call.done
    /\ call' = [call EXCEPT !.done = TRUE, !.ret = yaml_to_instruction(call.arg)]
    /\ UNCHANGED <<pc, input, content_as_yaml, transaction, recent_blockhash, signature,
                   log, stdout, stderr, exit_code>>

CallYamlToAccountMeta ==
    /\ call.fn = "yaml_to_account_meta" /\ ~call.done
    /\ call' = [call EXCEPT !.done = TRUE, !.ret = yaml_to_account_meta(call.arg)]
    /\ UNCHANGED <<pc, input, content_as_yaml, transaction, recent_blockhash, signature,
                   log, stdout, stderr, exit_code>>

NextDecode == CallYamlToInstruction \/ CallYamlToAccountMeta

SpecDecode == InitDecode /\ [][NextDecode]_vars


(***************************************************************************)
(* Properties.                                                             *)
(***************************************************************************)
TopLevelAbsent == input.file.kind = "yaml" /\ Len(input.file.docs) = 0
TopLevelNotSequence ==
    input.file.kind = "yaml" /\ Len(input.file.docs) > 0 /\ input.file.docs[1].tag # "Array"

ForeignSigner ==
    /\ input.well_formed
    /\ \E i \in 1..Len(input.instructions) :
         \E j \in 1..Len(input.instructions[i].accounts) :
            /\ input.instructions[i].accounts[j].is_signer
            /\ input.instructions[i].accounts[j].pubkey # SignerPubkey

PayerSignature == transaction.signatures[transaction.fee_payer]
ChainCalls == {i \in 1..Len(log) : log[i].stage \in {"fetch", "sign", "submit"}}

\* C1: a file whose top level is absent or is not a sequence ends the
\* invocation, once decoding has run, in a failed decode reported as a schema
\* error with exit code 1, and no fetch, sign or submit call is issued.
C1_NoTopLevelSequenceIsSchemaError ==
    (TopLevelAbsent \/ TopLevelNotSequence) /\ Ran("decode")
        => /\ Failed("decode")
           /\ ChainCalls = {}
           /\ exit_code = 1
           /\ stderr = <<"SchemaError: EmptyDocument">>

\* C4: a process that has ended has exit code 0 or 1; 0 only after a
\* successful submit, and 1 whenever a stage failed.
C4_ExitCodeZeroOrOne ==
    pc = "exited"
        => /\ exit_code \in {0, 1}
           /\ exit_code = 0 => Succeeded("submit")
           /\ (\E i \in 1..Len(log) : ~log[i].ok) => exit_code = 1

\* C5: fetch, sign and submit are each called at most once; after a failed
\* submit the process has ended with exit code 1 and the one error reported,
\* the failed submit being the last thing it did.
C5_NoRetry ==
    /\ Count("fetch") <= 1 /\ Count("sign") <= 1 /\ Count("submit") <= 1
    /\ Failed("submit")
          => /\ pc = "exited" /\ exit_code = 1
             /\ stderr = <<"RpcError">>
             /\ log[Len(log)] = Stage("submit", FALSE)

C5_SubmitFailed == Failed("submit") /\ Succeeded("sign") /\ pc = "exited"

\* C6: the stages run in the order signer, read, parse, decode, fetch, sign,
\* submit, print, each at most once, and only the last stage run may have
\* failed: nothing follows a failed decode, fetch or sign.
StageOrder == <<"signer", "read", "parse", "decode", "fetch", "sign", "submit", "print">>

C6_StagesInOrder ==
    /\ Len(log) <= Len(StageOrder)
    /\ \A i \in 1..Len(log) : log[i].stage = StageOrder[i]
    /\ \A i \in 1..Len(log) : ~log[i].ok => i = Len(log)
    /\ Failed("decode") => ChainCalls = {}
    /\ Failed("fetch") => ~Ran("sign") /\ ~Ran("submit")
    /\ Failed("sign") => Succeeded("fetch") /\ ~Ran("submit")

C6_SignerFailedAfterFetch ==
    Failed("sign") /\ Succeeded("fetch") /\ stderr = <<"SignerError: refused">>

\* C7 as stated: with an account marked signer under a key other than the
\* fee payer's, a run in which load, decode and fetch succeeded and the signer
\* did not refuse has issued the submit call by the time it ends.
C7_ForeignSignerReachesSubmit ==
    ForeignSigner /\ pc = "exited" /\ Succeeded("fetch")
        /\ stderr # <<"SignerError: refused">>
        => Ran("submit")

\* C7 as amended: with an account marked signer under a key other than the
\* fee payer's, the sign step fails locally (the signer refuses, or a slot is
\* left empty) and no submit call is issued.
C7_ForeignSignerFailsAtSign ==
    ForeignSigner /\ Ran("sign")
        => /\ Failed("sign")
           /\ ~Ran("submit")
           /\ pc = "exited" /\ exit_code = 1
           /\ stderr \in {<<"SignerError: refused">>, <<"SignerError: not enough signers">>}

C7_NotEnoughSigners ==
    ForeignSigner /\ Succeeded("fetch") /\ stderr = <<"SignerError: not enough signers">>

\* C8: the transaction given to submit has the signer's key as fee payer and
\* one signature slot, the fee payer's, holding the signer's signature over
\* the fetched blockhash.
C8_FeePayerBinding ==
    Ran("submit")
        => /\ transaction.fee_payer = SignerPubkey
           /\ DOMAIN transaction.signatures = {SignerPubkey}
           /\ transaction.signatures[SignerPubkey] = SignMessage(SignerPubkey, recent_blockhash)
           /\ transaction.recent_blockhash = recent_blockhash

C8_SubmittedWithPayerAccount ==
    /\ Ran("submit")
    /\ \E i \in 1..Len(transaction.instructions) :
         \E j \in 1..Len(transaction.instructions[i].accounts) :
            /\ transaction.instructions[i].accounts[j].is_signer
            /\ transaction.instructions[i].accounts[j].pubkey = SignerPubkey

C10_SignatureOnlyAfterConfirmation ==
    (\E i \in 1..Len(stdout) : Shows(stdout[i], PayerSignature)) => Succeeded("submit")

\* C10 as amended: the line main prints, holding the returned signature,
\* is on stdout only after the submit call has returned successfully; the list
\* of signature slots, which shows the transaction's signature, is printed
\* once signing has succeeded, before the submit call, and is all that a run
\* whose submit fails has printed.
C10_FinalLineAfterConfirmation ==
    /\ \A i \in 1..Len(stdout) :
          stdout[i].format = "{}" => Succeeded("submit") /\ stdout[i] = Line("{}", {PayerSignature})
    /\ Succeeded("sign")
          => /\ Len(stdout) >= 1
             /\ stdout[1] = Line("{:?}", SlotValues(transaction))
             /\ Shows(stdout[1], PayerSignature)
    /\ ~Succeeded("sign") => stdout = <<>>
    /\ Failed("submit") => Len(stdout) = 1

C10_SlotsPrintedThenSubmitFailed ==
    Failed("submit") /\ Len(stdout) = 1 /\ Shows(stdout[1], PayerSignature)

(***************************************************************************)
(* Properties of the decoders, under SpecDecode.                           *)
(***************************************************************************)
WellFormedMetaNode(node) ==
    /\ Index(node, "key").tag = "String"
    /\ Index(node, "key").s \in {"Payer58", "Other58", "Program58"}
    /\ Index(node, "isSigner").tag = "Boolean"
    /\ Index(node, "isWritable").tag = "Boolean"

WellFormedBesidesData(node) ==
    /\ Index(node, "programId").tag = "String"
    /\ Index(node, "programId").s \in {"Payer58", "Other58", "Program58"}
    /\ Index(node, "accounts").tag = "Array"
    /\ \A j \in 1..Len(Index(node, "accounts").items) :
          WellFormedMetaNode(Index(node, "accounts").items[j])

RECURSIVE DecimalValue(_)
DecimalValue(s) ==
    IF s = <<>> THEN 0 ELSE DecimalValue(SubSeq(s, 1, Len(s) - 1)) * 10 + DigitValue(s[Len(s)])

\* Some comma-separated element of s is a number of 256 or more.
HasByteOutOfRange(s) ==
    \E a \in 1..Len(s) : \E b \in a..Len(s) :
        /\ a = 1 \/ s[a - 1] = ","
        /\ b = Len(s) \/ s[b + 1] = ","
        /\ \A i \in a..b : s[i] \in Digits
        /\ DecimalValue(SubSeq(s, a, b)) >= 256

HasNonDigit(s) == \E i \in 1..Len(s) : s[i] \notin Digits \cup {","}

KeyAbsent(node, key) == Index(node, key).tag = "BadValue"

MalformedElement(node) ==
    \/ KeyAbsent(node, "programId") \/ KeyAbsent(node, "accounts") \/ KeyAbsent(node, "data")
    \/ /\ Index(node, "accounts").tag = "Array"
       /\ \E j \in 1..Len(Index(node, "accounts").items) :
             \/ KeyAbsent(Index(node, "accounts").items[j], "key")
             \/ KeyAbsent(Index(node, "accounts").items[j], "isSigner")
             \/ KeyAbsent(Index(node, "accounts").items[j], "isWritable")
    \/ /\ Index(node, "data").tag = "String"
       /\ HasNonDigit(Index(node, "data").s) \/ HasByteOutOfRange(Index(node, "data").s)

\* How a finished call came back: with its value, or by unwinding.  The
\* decoders return Instruction and AccountMeta, not Result: there is no third way.
Outcome(ret) == IF ret.panic THEN "panic" ELSE "value"

\* C2: yaml_to_instruction, called on an element whose data is the empty
\* string (and whose other fields are well formed), returns an instruction
\* with no data bytes.
C2_EmptyDataDecodes ==
    /\ call.fn = "yaml_to_instruction" /\ call.done
    /\ Index(call.arg, "data").tag = "String"
    /\ WellFormedBesidesData(call.arg)
    => (Index(call.arg, "data").s = <<>>
           => Outcome(call.ret) = "value" /\ call.ret.value.data = <<>>)

\* C3: yaml_to_instruction, called on a malformed element (a key absent, or
\* a data element with a non-digit character or a value of 256 or more), comes
\* back with a SchemaError value and no instruction.
C3_MalformedIsSchemaError ==
    call.fn = "yaml_to_instruction" /\ call.done /\ MalformedElement(call.arg)
        => Outcome(call.ret) = "SchemaError"

====
